---- MODULE Spec2Model ----
(***************************************************************************)
(* GumbelTopBucket (src/src/lib.rs): weighted sampling without replacement *)
(* by the Gumbel-top-k trick.  new() adds one Gumbel noise value to every  *)
(* score, sorts the (index, noisy score) pairs once, and draw() /          *)
(* draw_with_score() pop the front pair.                                   *)
(*                                                                         *)
(* f64 values are modelled by their IEEE-754 classes: a finite value       *)
(* (small integers, on which f64 arithmetic is exact), +inf, -inf and NaN. *)
(***************************************************************************)
EXTENDS Integers, Sequences, FiniteSets

(* Largest number of scores handed to new() in Spec, DrainSpec, CloneSpec  *)
(* and sampled for in SampleSpec; LongSpec builds buckets of 21 scores.     *)
MaxN == 3

(* ------------------------------ f64 ---------------------------------- *)

Num(n) == [tag |-> "num", val |-> n]
PosInf == [tag |-> "inf", val |-> 1]
NegInf == [tag |-> "inf", val |-> -1]
NaN == [tag |-> "nan", val |-> 0]

IsNaN(x) == x.tag = "nan"

Sign(n) == IF n > 0 THEN 1 ELSE IF n < 0 THEN -1 ELSE 0

(* IEEE-754 addition: NaN is absorbing, inf + (-inf) = NaN. *)
f64_add(a, b) ==
    IF IsNaN(a) \/ IsNaN(b) THEN NaN
    ELSE IF a.tag = "inf" /\ b.tag = "inf"
         THEN (IF a.val = b.val THEN a ELSE NaN)
    ELSE IF a.tag = "inf" THEN a
    ELSE IF b.tag = "inf" THEN b
    ELSE Num(a.val + b.val)

(* IEEE-754 multiplication: NaN is absorbing, inf * 0 = NaN. *)
f64_mul(a, b) ==
    IF IsNaN(a) \/ IsNaN(b) THEN NaN
    ELSE IF a.tag = "inf" \/ b.tag = "inf"
         THEN (IF Sign(a.val) * Sign(b.val) = 0 THEN NaN
               ELSE [tag |-> "inf", val |-> Sign(a.val) * Sign(b.val)])
    ELSE Num(a.val * b.val)

(* IEEE-754 a < b: false as soon as one side is NaN. *)
f64_lt(a, b) ==
    IF IsNaN(a) \/ IsNaN(b) THEN FALSE
    ELSE IF a.tag = "inf" THEN a.val < 0 /\ b # a
    ELSE IF b.tag = "inf" THEN b.val > 0
    ELSE a.val < b.val

(* f64::partial_cmp: None when the two values are incomparable. *)
partial_cmp(a, b) ==
    IF IsNaN(a) \/ IsNaN(b) THEN "None"
    ELSE IF f64_lt(a, b) THEN "Less"
    ELSE IF f64_lt(b, a) THEN "Greater"
    ELSE "Equal"

(* F64Add::float_add for f32 and f64: promote, then add. *)
float_add(score, other) == f64_add(score, other)

(* ------------------------- inputs of new() --------------------------- *)

(* Scores the caller may pass. *)
ScoreVals == {Num(0), Num(1), NegInf, NaN}

(* Temperatures the caller may pass. *)
TempVals == {Num(1), Num(0), Num(-1), PosInf, NaN}

(* A uniform variate is named by an integer, in increasing order of the   *)
(* variates: k in -3..23 names a sampler output next to exp(-exp(-k));     *)
(* ULow names 1e-10 (< exp(-exp(3))) and UHigh names 1 - 1e-10             *)
(* (> exp(-exp(-23))), the two ends of the range.                          *)
ULow == -4
UHigh == 24

(* Mutant of Uniform_from: the closed range low..=high. *)
Uniform_from_inclusive(low, high) == {x \in ULow..UHigh : low <= x /\ x <= high}

(* Uniform::from(low..high): the variates the distribution can hand out,   *)
(* the half-open range [low, high).                                        *)
Uniform_from(low, high) == {x \in ULow..UHigh : low <= x /\ x < high}

(* The variates whose transform is taken on the model's integer grid.     *)
(* The transform of a sampler output is never 0: next to exp(-1) it goes   *)
(* from -2.2e-16 straight to 4.4e-16, so the name 0 has no value on the    *)
(* grid, and neither has ULow (-3.1366...).                                *)
GumbelNames == (-3..23) \ {0}

(* The variates sampled when a bucket is built. *)
UVals == {x \in Uniform_from(ULow, UHigh) : x \in {-1, 1, 2}}

(* x -> -((-(x.ln())).ln()) for the variate named k: the non-zero number   *)
(* k, up to the rounding of the two logarithms.                            *)
gumbel(k) == CASE k \in GumbelNames -> Num(k)

(* Mutant of gumbel_noise: take(size + 1), one variate (k = 1) too many. *)
gumbel_noise_one_more(size, temperature, u) ==
    Append([i \in 1..size |-> f64_mul(gumbel(u[i]), temperature)],
           f64_mul(gumbel(1), temperature))

(* gumbel_noise(size, temperature), with the size variates it samples. *)
gumbel_noise(size, temperature, u) ==
    [i \in 1..size |-> f64_mul(gumbel(u[i]), temperature)]

(* ------------------------------ sort --------------------------------- *)

(* Mutant of compare: the operands in the order a, b (ascending sort). *)
compare_ascending(a, b) ==
    LET c == partial_cmp(a[2], b[2])
    IN IF c = "None" THEN "Equal" ELSE c

(* The comparator of new(): |a, b| b.1.partial_cmp(&a.1).unwrap_or(Equal). *)
compare(a, b) ==
    LET c == partial_cmp(b[2], a[2])
    IN IF c = "None" THEN "Equal" ELSE c

is_less(a, b) == compare(a, b) = "Less"

(* The operators of the sort bind each argument once (v \in {v0}): an      *)
(* argument is evaluated once, however often the body reads it.            *)

(* Insert x into the sorted prefix v from the right: x moves left past     *)
(* every element it is less than and stops at the first it is not.         *)
RECURSIVE insert_tail(_, _)
insert_tail(v0, x0) ==
    CHOOSE r \in
      {IF v = <<>> THEN <<x>>
       ELSE IF is_less(x, v[Len(v)])
            THEN Append(insert_tail(SubSeq(v, 1, Len(v) - 1), x), v[Len(v)])
            ELSE Append(v, x) : v \in {v0}, x \in {x0}} : TRUE

(* Mutant of sort_unstable_by: the pairs are left in input order. *)
sort_skipped(v) == [kind |-> "Ok", v |-> v]

(* What a sort leaves: the slice in its final order, or a panic. *)
Sorted(v) == [kind |-> "Ok", v |-> v]

(* panic_on_ord_violation(): "user-provided comparison function does not   *)
(* correctly implement a total order".                                     *)
panic_on_ord_violation == [kind |-> "panic", v |-> <<>>]

(* insertion_sort_shift_left(v, 1, is_less): insert_tail of every element  *)
(* from the second on.                                                     *)
RECURSIVE insertion_sort_shift_left(_)
insertion_sort_shift_left(v0) ==
    CHOOSE r \in
      {IF Len(v) < 2 THEN v
       ELSE insert_tail(insertion_sort_shift_left(SubSeq(v, 1, Len(v) - 1)),
                        v[Len(v)]) : v \in {v0}} : TRUE

(* sort4_stable: five comparisons on four elements. *)
sort4_stable(v0) ==
    CHOOSE r \in
      {LET c1 == is_less(v[2], v[1])
           c2 == is_less(v[4], v[3])
           a == v[IF c1 THEN 2 ELSE 1]
           b == v[IF c1 THEN 1 ELSE 2]
           c == v[IF c2 THEN 4 ELSE 3]
           d == v[IF c2 THEN 3 ELSE 4]
           c3 == is_less(c, a)
           c4 == is_less(d, b)
           min == IF c3 THEN c ELSE a
           max == IF c4 THEN b ELSE d
           unknown_left == IF c3 THEN a ELSE IF c4 THEN c ELSE b
           unknown_right == IF c4 THEN d ELSE IF c3 THEN b ELSE c
           c5 == is_less(unknown_right, unknown_left)
           lo == IF c5 THEN unknown_right ELSE unknown_left
           hi == IF c5 THEN unknown_left ELSE unknown_right
       IN <<min, lo, hi, max>> : v \in {v0}} : TRUE

(* merge_up, k times: the smaller of the two fronts goes to the end of the *)
(* output. The pointers left and right after the k steps are returned too. *)
RECURSIVE merge_up(_, _, _, _, _)
merge_up(src0, left0, right0, k0, out0) ==
    CHOOSE r \in
      {IF k = 0 THEN [out |-> out, left |-> left, right |-> right]
       ELSE LET is_l == ~is_less(src[right], src[left])
            IN merge_up(src,
                        IF is_l THEN left + 1 ELSE left,
                        IF is_l THEN right ELSE right + 1,
                        k - 1,
                        Append(out, IF is_l THEN src[left] ELSE src[right])) :
         src \in {src0}, left \in {left0}, right \in {right0},
         k \in {k0}, out \in {out0}} : TRUE

(* merge_down, k times: the larger of the two backs goes to the front of   *)
(* the output.                                                             *)
RECURSIVE merge_down(_, _, _, _, _)
merge_down(src0, left0, right0, k0, out0) ==
    CHOOSE r \in
      {IF k = 0 THEN [out |-> out, left |-> left, right |-> right]
       ELSE LET is_l == ~is_less(src[right], src[left])
            IN merge_down(src,
                          IF is_l THEN left ELSE left - 1,
                          IF is_l THEN right - 1 ELSE right,
                          k - 1,
                          <<IF is_l THEN src[right] ELSE src[left]>> \o out) :
         src \in {src0}, left \in {left0}, right \in {right0},
         k \in {k0}, out \in {out0}} : TRUE

(* bidirectional_merge: the two sorted halves of src are merged from both  *)
(* ends at once; when the pointers do not meet the comparator is not a     *)
(* total order and the sort panics.                                        *)
bidirectional_merge(src0) ==
    CHOOSE r \in
      {LET left_end == down.left + 1
           right_end == down.right + 1
           odd == Len(src) % 2 # 0
           left_nonempty == up.left < left_end
           mid == IF ~odd THEN <<>>
                  ELSE IF left_nonempty THEN <<src[up.left]>>
                  ELSE <<src[up.right]>>
           left == IF odd /\ left_nonempty THEN up.left + 1 ELSE up.left
           right == IF odd /\ ~left_nonempty THEN up.right + 1 ELSE up.right
       IN IF left # left_end \/ right # right_end
          THEN panic_on_ord_violation
          ELSE Sorted(up.out \o mid \o down.out) :
         src \in {src0},
         up \in {merge_up(src0, 1, Len(src0) \div 2 + 1,
                          Len(src0) \div 2, <<>>)},
         down \in {merge_down(src0, Len(src0) \div 2, Len(src0),
                              Len(src0) \div 2, <<>>)}} : TRUE

(* sort8_stable: two sort4_stable and a bidirectional_merge. *)
sort8_stable(v0) ==
    CHOOSE r \in
      {bidirectional_merge(sort4_stable(SubSeq(v, 1, 4))
                           \o sort4_stable(SubSeq(v, 5, 8))) : v \in {v0}} : TRUE

(* insert_tail of w[i], w[i + 1], ... into the sorted run. *)
RECURSIVE insert_rest(_, _, _)
insert_rest(run0, w0, i0) ==
    CHOOSE r \in
      {IF i > Len(w) THEN run
       ELSE insert_rest(insert_tail(run, w[i]), w, i + 1) :
         run \in {run0}, w \in {w0}, i \in {i0}} : TRUE

(* One half of small_sort_general: its first 8, 4 or 1 elements are        *)
(* presorted and the rest is inserted; len is the length of the whole.     *)
small_sort_half(w0, len0) ==
    CHOOSE r \in
      {IF len >= 16
       THEN (IF pre.kind = "panic" THEN panic_on_ord_violation
             ELSE Sorted(insert_rest(pre.v, w, 9)))
       ELSE IF len >= 8
       THEN Sorted(insert_rest(sort4_stable(SubSeq(w, 1, 4)), w, 5))
       ELSE Sorted(insert_rest(<<w[1]>>, w, 2)) :
         w \in {w0}, len \in {len0},
         pre \in {IF len0 >= 16 THEN sort8_stable(SubSeq(w0, 1, 8))
                  ELSE Sorted(<<>>)}} : TRUE

(* small_sort_general: each half is presorted and extended by insertion,   *)
(* and the halves are merged.                                              *)
small_sort_general(v0) ==
    CHOOSE r \in
      {IF lo.kind = "panic" \/ hi.kind = "panic"
       THEN panic_on_ord_violation
       ELSE IF Len(v) < 2 THEN Sorted(v)
       ELSE bidirectional_merge(lo.v \o hi.v) :
         v \in {v0},
         lo \in {IF Len(v0) < 2 THEN Sorted(<<>>)
                 ELSE small_sort_half(SubSeq(v0, 1, Len(v0) \div 2), Len(v0))},
         hi \in {IF Len(v0) < 2 THEN Sorted(<<>>)
                 ELSE small_sort_half(SubSeq(v0, Len(v0) \div 2 + 1, Len(v0)),
                                      Len(v0))}} : TRUE

swap(v0, i0, j0) ==
    CHOOSE r \in
      {[v EXCEPT ![i] = v[j], ![j] = v[i]] :
         v \in {v0}, i \in {i0}, j \in {j0}} : TRUE

(* sift_down(&mut v[..len], node): node counted from 0. *)
RECURSIVE sift_down(_, _, _)
sift_down(v0, len0, node0) ==
    CHOOSE r \in
      {LET first == 2 * node + 1
           child == IF first + 1 < len /\ is_less(v[first + 1], v[first + 2])
                    THEN first + 1 ELSE first
       IN IF first >= len THEN v
          ELSE IF ~is_less(v[node + 1], v[child + 1]) THEN v
          ELSE sift_down(swap(v, node + 1, child + 1), len, child) :
         v \in {v0}, len \in {len0}, node \in {node0}} : TRUE

(* The iterations i, i - 1, ..., 0 of heapsort's loop. *)
RECURSIVE heapsort_loop(_, _)
heapsort_loop(v0, i0) ==
    CHOOSE r \in
      {IF i < 0 THEN v
       ELSE IF i >= Len(v)
       THEN heapsort_loop(sift_down(v, Len(v), i - Len(v)), i - 1)
       ELSE heapsort_loop(sift_down(swap(v, 1, i + 1), i, 0), i - 1) :
         v \in {v0}, i \in {i0}} : TRUE

(* heapsort: the fallback of quicksort when its limit is used up. *)
heapsort(v) == heapsort_loop(v, Len(v) + Len(v) \div 2 - 1)

(* median3: the position of the median of v[a], v[b], v[c]. *)
median3(v0, a0, b0, c0) ==
    CHOOSE r \in
      {LET x == is_less(v[a], v[b])
           y == is_less(v[a], v[c])
           z == is_less(v[b], v[c])
       IN IF x = y THEN (IF z # x THEN c ELSE b) ELSE a :
         v \in {v0}, a \in {a0}, b \in {b0}, c \in {c0}} : TRUE

RECURSIVE median3_rec(_, _, _, _, _)
median3_rec(v0, a0, b0, c0, n0) ==
    CHOOSE r \in
      {IF n * 8 >= 64
       THEN LET n8 == n \div 8
            IN median3(v,
                       median3_rec(v, a, a + n8 * 4, a + n8 * 7, n8),
                       median3_rec(v, b, b + n8 * 4, b + n8 * 7, n8),
                       median3_rec(v, c, c + n8 * 4, c + n8 * 7, n8))
       ELSE median3(v, a, b, c) :
         v \in {v0}, a \in {a0}, b \in {b0}, c \in {c0}, n \in {n0}} : TRUE

(* choose_pivot: the position (from 1) of the pivot. *)
choose_pivot(v0) ==
    CHOOSE r \in
      {LET len_div_8 == Len(v) \div 8
           a == 1
           b == len_div_8 * 4 + 1
           c == len_div_8 * 7 + 1
       IN IF Len(v) < 64 THEN median3(v, a, b, c)
          ELSE median3_rec(v, a, b, c, len_div_8) : v \in {v0}} : TRUE

(* The comparison a partition uses: is_less(a, b), or !is_less(b, a) when  *)
(* the elements equal to the pivot go to the left.                         *)
partition_is_less(equal_left, a, b) ==
    IF equal_left THEN ~is_less(b, a) ELSE is_less(a, b)

(* The loop of partition_lomuto_branchless_cyclic from position right on,  *)
(* and its last step, which places the element saved from the gap.         *)
RECURSIVE lomuto_loop(_, _, _, _, _, _, _)
lomuto_loop(w0, pivot0, equal_left0, gap_value0, gap0, num_lt0, right0) ==
    CHOOSE r \in
      {LET last == right > Len(w)
           src == IF last THEN gap_value ELSE w[right]
           left == num_lt + 1
           w1 == [[w EXCEPT ![gap] = w[left]] EXCEPT ![left] = src]
           lt == IF partition_is_less(equal_left, src, pivot)
                 THEN num_lt + 1 ELSE num_lt
       IN IF last THEN [v |-> w1, num_lt |-> lt]
          ELSE lomuto_loop(w1, pivot, equal_left, gap_value, right, lt,
                           right + 1) :
         w \in {w0}, pivot \in {pivot0}, equal_left \in {equal_left0},
         gap_value \in {gap_value0}, gap \in {gap0}, num_lt \in {num_lt0},
         right \in {right0}} : TRUE

partition_lomuto_branchless_cyclic(w0, pivot0, equal_left0) ==
    CHOOSE r \in
      {IF w = <<>> THEN [v |-> w, num_lt |-> 0]
       ELSE lomuto_loop(w, pivot, equal_left, w[1], 1, 0, 2) :
         w \in {w0}, pivot \in {pivot0}, equal_left \in {equal_left0}} : TRUE

(* partition(v, pivot_pos, is_less): the pivot goes to the front, the rest *)
(* is partitioned, and the pivot is swapped between the two parts.         *)
partition(v0, pivot_pos0, equal_left0) ==
    CHOOSE r \in
      {[v |-> swap(<<v1[1]>> \o p.v, 1, p.num_lt + 1), num_lt |-> p.num_lt] :
         v1 \in {swap(v0, 1, pivot_pos0)},
         p \in {partition_lomuto_branchless_cyclic(
                    Tail(swap(v0, 1, pivot_pos0)), v0[pivot_pos0],
                    equal_left0)}} : TRUE

(* The sorted parts of a slice, in place side by side; a panic in either   *)
(* sort is a panic of the whole.                                           *)
join(left0, mid0, right0) ==
    CHOOSE r \in
      {IF left.kind = "panic" \/ right.kind = "panic"
       THEN panic_on_ord_violation
       ELSE Sorted(left.v \o mid \o right.v) :
         left \in {left0}, mid \in {mid0}, right \in {right0}} : TRUE

(* quicksort(v, ancestor_pivot, limit, is_less): the loop on the right     *)
(* part is written as a recursion. When the pivot equals the ancestor      *)
(* pivot (equal_left) the elements equal to it are partitioned to the left *)
(* and only the rest is sorted.                                            *)
RECURSIVE quicksort(_, _, _, _)
RECURSIVE quicksort_parts(_, _, _, _, _)
quicksort_parts(p0, equal_left0, has_ancestor0, ancestor_pivot0, limit0) ==
    CHOOSE r \in
      {IF equal_left
       THEN join(Sorted(SubSeq(p.v, 1, p.num_lt + 1)), <<>>,
                 quicksort(SubSeq(p.v, p.num_lt + 2, Len(p.v)),
                           FALSE, ancestor_pivot, limit))
       ELSE join(quicksort(SubSeq(p.v, 1, p.num_lt),
                           has_ancestor, ancestor_pivot, limit),
                 <<p.v[p.num_lt + 1]>>,
                 quicksort(SubSeq(p.v, p.num_lt + 2, Len(p.v)),
                           TRUE, p.v[p.num_lt + 1], limit)) :
         p \in {p0}, equal_left \in {equal_left0},
         has_ancestor \in {has_ancestor0},
         ancestor_pivot \in {ancestor_pivot0}, limit \in {limit0}} : TRUE

quicksort(v0, has_ancestor0, ancestor_pivot0, limit0) ==
    CHOOSE r \in
      {IF Len(v) <= 32 THEN small_sort_general(v)
       ELSE IF limit = 0 THEN Sorted(heapsort(v))
       ELSE LET pivot_pos == choose_pivot(v)
                equal_left == has_ancestor
                              /\ ~is_less(ancestor_pivot, v[pivot_pos])
            IN quicksort_parts(partition(v, pivot_pos, equal_left),
                               equal_left, has_ancestor, ancestor_pivot,
                               limit - 1) :
         v \in {v0}, has_ancestor \in {has_ancestor0},
         ancestor_pivot \in {ancestor_pivot0}, limit \in {limit0}} : TRUE

(* find_existing_run: the length of the run v starts with, n of it known. *)
RECURSIVE run_end(_, _, _)
run_end(v0, strictly_descending0, n0) ==
    CHOOSE r \in
      {IF n < Len(v) /\ (is_less(v[n + 1], v[n]) = strictly_descending)
       THEN run_end(v, strictly_descending, n + 1)
       ELSE n :
         v \in {v0}, strictly_descending \in {strictly_descending0},
         n \in {n0}} : TRUE

RECURSIVE ilog2(_)
ilog2(n0) ==
    CHOOSE r \in {IF n < 2 THEN 0 ELSE 1 + ilog2(n \div 2) : n \in {n0}} : TRUE

Reverse(v) == [i \in 1..Len(v) |-> v[Len(v) + 1 - i]]

(* ipnsort: a slice that is one run is done (reversed when descending);    *)
(* any other goes to quicksort with limit 2 * ilog2(len | 1).              *)
ipnsort(v0) ==
    CHOOSE r \in
      {LET len == Len(v)
           strictly_descending == is_less(v[2], v[1])
       IN IF run_end(v, strictly_descending, 2) = len
          THEN Sorted(IF strictly_descending THEN Reverse(v) ELSE v)
          ELSE quicksort(v, FALSE, v[1],
                         2 * ilog2(IF len % 2 = 0 THEN len + 1 ELSE len)) :
         v \in {v0}} : TRUE

(* slice::sort_unstable_by: nothing to do below two elements, an insertion *)
(* sort up to 20, ipnsort above.                                           *)
sort_unstable_by(v0) ==
    CHOOSE r \in
      {IF Len(v) < 2 THEN Sorted(v)
       ELSE IF Len(v) <= 20 THEN Sorted(insertion_sort_shift_left(v))
       ELSE ipnsort(v) : v \in {v0}} : TRUE

(* ------------------------------ new ---------------------------------- *)

(* Mutant of pair_up: indices counted from 1. *)
pair_up_one_based(scores, noises) ==
    [p \in 1..Len(scores) |-> <<p, float_add(scores[p], noises[p])>>]

(* scores.iter().enumerate().map(|(i, &score)| (i, score.float_add(noises[i]))) *)
pair_up(scores, noises) ==
    [p \in 1..Len(scores) |-> <<p - 1, float_add(scores[p], noises[p])>>]

(* GumbelTopBucket::new(scores, temperature); u are the variates drawn.    *)
(* A panic of the sort unwinds out of new(): no bucket is returned.        *)
new(scores, temperature, u) ==
    CHOOSE b \in
      {[kind |-> IF sorted.kind = "panic" THEN "panic" ELSE "Bucket",
        scores_len |-> IF sorted.kind = "panic" THEN 0 ELSE Len(scores),
        noisy_scores |-> sorted.v,
        noises |-> ns] :
         ns \in {gumbel_noise(Len(scores), temperature, u)},
         sorted \in {sort_unstable_by(
                         pair_up(scores,
                                 gumbel_noise(Len(scores), temperature, u)))}} :
        TRUE

(* ------------------------------ draws -------------------------------- *)

(* Mutant of remove0: Vec::pop, the vector without its last element. *)
remove0_pop(v) == SubSeq(v, 1, Len(v) - 1)

(* Mutant of remove0: Vec::swap_remove(0), the last element takes the     *)
(* place of the first.                                                     *)
remove0_swap(v) ==
    IF Len(v) <= 1 THEN <<>>
    ELSE <<v[Len(v)]>> \o SubSeq(v, 2, Len(v) - 1)

(* Vec::remove(0): the vector without its first element. *)
remove0(v) == SubSeq(v, 2, Len(v))

(* Mutant of draw_with_score: the emptiness test is scores_len <= 1. *)
draw_with_score_off_by_one(b) ==
    IF b.scores_len <= 1
    THEN [kind |-> "None", val |-> <<>>, bucket |-> b]
    ELSE [kind |-> "Some",
          val |-> b.noisy_scores[1],
          bucket |-> [scores_len |-> b.scores_len - 1,
                      noisy_scores |-> remove0(b.noisy_scores)]]

(* Mutant of draw_with_score: scores_len is not decremented. *)
draw_with_score_no_decrement(b) ==
    IF b.scores_len = 0
    THEN [kind |-> "None", val |-> <<>>, bucket |-> b]
    ELSE IF b.noisy_scores = <<>>
    THEN [kind |-> "panic", val |-> <<>>, bucket |-> b]
    ELSE [kind |-> "Some",
          val |-> b.noisy_scores[1],
          bucket |-> [scores_len |-> b.scores_len,
                      noisy_scores |-> remove0(b.noisy_scores)]]

(* Mutant of draw_with_score: no emptiness test before remove(0). *)
draw_with_score_no_guard(b) ==
    IF b.noisy_scores = <<>>
    THEN [kind |-> "panic", val |-> <<>>, bucket |-> b]
    ELSE [kind |-> "Some",
          val |-> b.noisy_scores[1],
          bucket |-> [scores_len |-> b.scores_len - 1,
                      noisy_scores |-> remove0(b.noisy_scores)]]

(* draw_with_score(&mut self): the value returned and the bucket after.    *)
(* Vec::remove panics on an empty vector.                                  *)
draw_with_score(b) ==
    IF b.scores_len = 0
    THEN [kind |-> "None", val |-> <<>>, bucket |-> b]
    ELSE IF b.noisy_scores = <<>>
    THEN [kind |-> "panic", val |-> <<>>, bucket |-> b]
    ELSE [kind |-> "Some",
          val |-> b.noisy_scores[1],
          bucket |-> [scores_len |-> b.scores_len - 1,
                      noisy_scores |-> remove0(b.noisy_scores)]]

(* Mutant of draw: draw_with_score().unwrap_or_default() in place of `?`. *)
draw_unwrap_or_default(b) ==
    LET r == draw_with_score(b)
    IN IF r.kind = "Some"
       THEN [kind |-> "Some", val |-> <<r.val[1]>>, bucket |-> r.bucket]
       ELSE IF r.kind = "None"
       THEN [kind |-> "Some", val |-> <<0>>, bucket |-> r.bucket]
       ELSE [kind |-> r.kind, val |-> <<>>, bucket |-> r.bucket]

(* Mutant of draw: the front index is read without removing the pair. *)
draw_peek(b) ==
    IF b.noisy_scores = <<>>
    THEN [kind |-> "None", val |-> <<>>, bucket |-> b]
    ELSE [kind |-> "Some", val |-> <<b.noisy_scores[1][1]>>, bucket |-> b]

(* draw(&mut self): draw_with_score()? with the score dropped. *)
draw(b) ==
    LET r == draw_with_score(b)
    IN IF r.kind = "Some"
       THEN [kind |-> "Some", val |-> <<r.val[1]>>, bucket |-> r.bucket]
       ELSE [kind |-> r.kind, val |-> <<>>, bucket |-> r.bucket]

(* ------------------------------ state -------------------------------- *)

VARIABLES
    scores,        \* the slice passed to new()
    temperature,   \* the temperature passed to new()
    noises,        \* the vector gumbel_noise returned inside new()
    scores_len,    \* GumbelTopBucket.scores_len
    noisy_scores,  \* GumbelTopBucket.noisy_scores
    ret,           \* the last call and what it returned
    drawn,         \* indices returned by the successful draws so far
    seen,          \* noisy scores returned by draw_with_score() so far
    none_seen,     \* some draw has returned None
    u,             \* the uniform variates gumbel_noise has sampled
    heap,          \* the Vec buffers allocated, when copies are tracked
    copies,        \* the bucket and its clone: scores_len and a buffer
    logs           \* what each copy's draws returned since the clone

vars == <<scores, temperature, noises, scores_len, noisy_scores, ret,
          drawn, seen, none_seen, u, heap, copies, logs>>

(* No clone is tracked. *)
NoCopies == heap = <<>> /\ copies = <<>> /\ logs = <<>>

bucket == [scores_len |-> scores_len, noisy_scores |-> noisy_scores]

Init ==
    \E n \in 0..MaxN :
      \E s \in [1..n -> ScoreVals], t \in TempVals, us \in [1..n -> UVals] :
        LET b == new(s, t, us)
        IN /\ scores = s
           /\ temperature = t
           /\ noises = b.noises
           /\ scores_len = b.scores_len
           /\ noisy_scores = b.noisy_scores
           /\ ret = [op |-> "new", kind |-> b.kind, val |-> <<>>]
           /\ drawn = <<>>
           /\ seen = <<>>
           /\ none_seen = FALSE
           /\ u = us
           /\ NoCopies

(* A call of bucket.draw_with_score(). *)
DrawWithScore ==
    /\ ret.kind # "panic"
    /\ LET r == draw_with_score(bucket)
       IN /\ scores_len' = r.bucket.scores_len
          /\ noisy_scores' = r.bucket.noisy_scores
          /\ ret' = [op |-> "draw_with_score", kind |-> r.kind, val |-> r.val]
          /\ drawn' = IF r.kind = "Some" THEN Append(drawn, r.val[1]) ELSE drawn
          /\ seen' = IF r.kind = "Some" THEN Append(seen, r.val[2]) ELSE seen
          /\ none_seen' = (none_seen \/ r.kind = "None")
    /\ UNCHANGED <<scores, temperature, noises, u, heap, copies, logs>>

(* A call of bucket.draw(). *)
Draw ==
    /\ ret.kind # "panic"
    /\ LET r == draw(bucket)
       IN /\ scores_len' = r.bucket.scores_len
          /\ noisy_scores' = r.bucket.noisy_scores
          /\ ret' = [op |-> "draw", kind |-> r.kind, val |-> r.val]
          /\ drawn' = IF r.kind = "Some" THEN Append(drawn, r.val[1]) ELSE drawn
          /\ none_seen' = (none_seen \/ r.kind = "None")
    /\ UNCHANGED <<scores, temperature, noises, seen, u, heap, copies, logs>>

Next == DrawWithScore \/ Draw

Spec == Init /\ [][Next]_vars

(* ------------------------- the driver's loop ------------------------- *)

(* while let Some(drawn) = bucket.draw() { ... }: one iteration; the loop  *)
(* is left at the first None.                                              *)
DrainStep == ~none_seen /\ Draw

(* The loop runs to completion on the caller's thread: an iteration that   *)
(* can run does run.                                                       *)
DrainSpec == Init /\ [][DrainStep]_vars /\ WF_vars(DrainStep)

(* ------------------- a slice of more than 20 scores ------------------ *)

(* 21 scores, NaN among them: above 20 elements the sort is ipnsort. *)
LongScores ==
    <<NaN, NaN, NaN, Num(3), Num(6), NaN, NaN, Num(3), Num(5), Num(0), Num(8),
      Num(0), Num(8), Num(4), NaN, NaN, NaN, Num(7), NaN, NaN, NaN>>

(* Temperatures of the long buckets: 0.0 leaves the scores as they are,    *)
(* 1.0 is the driver's.                                                    *)
LongTemps == {Num(0), Num(1)}

(* new() on LongScores with one score replaced; every variate sampled is   *)
(* the same one.                                                           *)
LongInit ==
    \E i \in 1..Len(LongScores), x \in ScoreVals, t \in LongTemps, k \in UVals :
        LET s == [LongScores EXCEPT ![i] = x]
            us == [j \in 1..Len(s) |-> k]
            b == new(s, t, us)
        IN /\ scores = s
           /\ temperature = t
           /\ noises = b.noises
           /\ scores_len = b.scores_len
           /\ noisy_scores = b.noisy_scores
           /\ ret = [op |-> "new", kind |-> b.kind, val |-> <<>>]
           /\ drawn = <<>>
           /\ seen = <<>>
           /\ none_seen = FALSE
           /\ u = us
           /\ NoCopies

(* The bucket, when new() has returned one, is drawn from with draw(). *)
LongSpec == LongInit /\ [][Draw]_vars

(* ------------------------ a bucket and its clone --------------------- *)

(* The bucket a handle stands for: its count and its buffer's content. *)
deref(h, c) == [scores_len |-> c.scores_len, noisy_scores |-> h[c.vec]]

(* Mutant of clone: the copy refers to the buffer of the original. *)
clone_shallow(h, c) == [heap |-> h, copy |-> c]

(* #[derive(Clone)]: scores_len is copied and Vec::clone allocates a new   *)
(* buffer with the same content.                                           *)
clone(h, c) ==
    [heap |-> Append(h, h[c.vec]),
     copy |-> [scores_len |-> c.scores_len, vec |-> Len(h) + 1]]

(* Temperature of the cloned buckets: 1.0, as in the driver. *)
CloneTemps == {Num(1)}

(* A bucket is built; its Vec is the first buffer. *)
CloneInit ==
    \E n \in 0..MaxN :
      \E s \in [1..n -> ScoreVals], t \in CloneTemps, us \in [1..n -> UVals] :
        LET b == new(s, t, us)
        IN /\ scores = s
           /\ temperature = t
           /\ noises = b.noises
           /\ scores_len = b.scores_len
           /\ noisy_scores = b.noisy_scores
           /\ ret = [op |-> "new", kind |-> b.kind, val |-> <<>>]
           /\ drawn = <<>>
           /\ seen = <<>>
           /\ none_seen = FALSE
           /\ u = us
           /\ heap = <<b.noisy_scores>>
           /\ copies = <<[scores_len |-> b.scores_len, vec |-> 1]>>
           /\ logs = <<<<>>>>

(* bucket.clone(), once, at any point of the original's life. *)
CloneBucket ==
    /\ Len(copies) = 1
    /\ LET c == clone(heap, copies[1])
       IN /\ heap' = c.heap
          /\ copies' = Append(copies, c.copy)
          /\ logs' = <<<<>>, <<>>>>
    /\ UNCHANGED <<scores, temperature, noises, scores_len, noisy_scores,
                   ret, drawn, seen, none_seen, u>>

(* draw_with_score() on copy i; at most N + 1 calls are logged per copy. *)
DrawCopy(i) ==
    /\ Len(logs[i]) <= Len(scores)
    /\ LET r == draw_with_score(deref(heap, copies[i]))
       IN /\ heap' = [heap EXCEPT ![copies[i].vec] = r.bucket.noisy_scores]
          /\ copies' = [copies EXCEPT ![i].scores_len = r.bucket.scores_len]
          /\ logs' = [logs EXCEPT ![i] = Append(@, [kind |-> r.kind, val |-> r.val])]
    /\ UNCHANGED <<scores, temperature, noises, scores_len, noisy_scores,
                   ret, drawn, seen, none_seen, u>>

CloneNext == CloneBucket \/ \E i \in 1..Len(copies) : DrawCopy(i)

CloneSpec == CloneInit /\ [][CloneNext]_vars

(* ---------------------- gumbel_noise, sampling ----------------------- *)

(* A call gumbel_noise(size, temperature) on its own, up to the point      *)
(* where the size variates have been collected into u.                     *)
SampleInit ==
    \E size \in 0..MaxN, t \in TempVals :
        /\ scores = <<>>
        /\ temperature = t
        /\ noises = <<>>
        /\ scores_len = 0
        /\ noisy_scores = <<>>
        /\ ret = [op |-> "gumbel_noise", kind |-> "sampling", val |-> <<size>>]
        /\ drawn = <<>>
        /\ seen = <<>>
        /\ none_seen = FALSE
        /\ u = <<>>
        /\ NoCopies

(* between.sample_iter(&mut rng).take(size): one more variate. *)
SampleU ==
    /\ ret.op = "gumbel_noise"
    /\ Len(u) < ret.val[1]
    /\ \E x \in Uniform_from(ULow, UHigh) : u' = Append(u, x)
    /\ UNCHANGED <<scores, temperature, noises, scores_len, noisy_scores,
                   ret, drawn, seen, none_seen, heap, copies, logs>>

SampleSpec == SampleInit /\ [][SampleU]_vars

(* --------------------------- vocabulary ------------------------------ *)

(* IEEE-754 a <= b. *)
f64_le(a, b) == ~IsNaN(a) /\ ~IsNaN(b) /\ ~f64_lt(b, a)

N == Len(scores)

Range(q) == {q[i] : i \in 1..Len(q)}

(* The original indices still held by the bucket. *)
Held == {noisy_scores[i][1] : i \in 1..Len(noisy_scores)}

(* No noisy score computed by new() is NaN. *)
NoNaN == \A p \in 1..N : ~IsNaN(float_add(scores[p], noises[p]))

(* ------------------------------ C1 ----------------------------------- *)

(* C1: no original index is returned by two different successful draws,   *)
(* whatever the mix of draw() and draw_with_score(); an index that was     *)
(* returned is no longer held by the bucket.                               *)
C1_NoRepeat ==
    /\ \A i, j \in 1..Len(drawn) : i # j => drawn[i] # drawn[j]
    /\ Range(drawn) \cap Held = {}

C1_Witness ==
    /\ Len(drawn) >= 3
    /\ ret.kind = "Some"
    /\ Len(seen) \in 1..(Len(drawn) - 1)

(* ------------------------------ C2 ----------------------------------- *)

(* C2: a bucket built from N scores yields exactly N successful draws      *)
(* before the first None, and those draws return exactly 0..N-1.           *)
C2_Completeness ==
    /\ Len(drawn) <= N
    /\ none_seen => /\ Len(drawn) = N
                    /\ Range(drawn) = 0..(N - 1)

C2_Witness == none_seen /\ N >= 2 /\ Len(drawn) = N

(* ------------------------------ C3 ----------------------------------- *)

(* C3 as claimed: for every bucket new() can produce, no noisy score       *)
(* returned by draw_with_score() is greater than one returned earlier.     *)
C3_MonotonicAnyBucket ==
    \A i, j \in 1..Len(seen) : i < j => ~f64_lt(seen[i], seen[j])

(* C3 amended: when none of the bucket's noisy scores is NaN, each noisy   *)
(* score returned by draw_with_score() is <= every one returned before it. *)
C3_MonotonicNoNaN ==
    NoNaN => \A i, j \in 1..Len(seen) : i < j => f64_le(seen[j], seen[i])

C3_Witness ==
    /\ NoNaN
    /\ Len(seen) >= 3
    /\ f64_lt(seen[3], seen[1])

(* ------------------------------ C4 ----------------------------------- *)

(* C4: once a draw has returned None every later draw returns None, and    *)
(* the remaining count never goes from 0 back to a positive value.         *)
C4_ExhaustedTerminal ==
    [][/\ none_seen => ret'.kind = "None"
       /\ scores_len = 0 => (scores_len' = 0 /\ ret'.kind = "None")]_vars

C4_Witness ==
    /\ none_seen
    /\ ret.kind = "None"
    /\ ret.op = "draw"
    /\ Len(drawn) >= 1
    /\ Len(seen) >= 1

(* ------------------------------ C5 ----------------------------------- *)

(* C5 as claimed: every successful draw_with_score() returns the pair of  *)
(* maximum noisy score: no pair still in the bucket has a greater one.     *)
C5_ArgMaxAnyBucket ==
    (ret.op = "draw_with_score" /\ ret.kind = "Some") =>
        \A i \in 1..Len(noisy_scores) :
            ~f64_lt(ret.val[2], noisy_scores[i][2])

(* C5 amended: when none of the bucket's noisy scores is NaN, the stored   *)
(* pairs are sorted by noisy score descending in every state, and the pair *)
(* draw_with_score() returns has a noisy score >= that of every pair left. *)
C5_ArgMaxNoNaN ==
    NoNaN =>
      /\ \A i, j \in 1..Len(noisy_scores) :
             i < j => f64_le(noisy_scores[j][2], noisy_scores[i][2])
      /\ (ret.op = "draw_with_score" /\ ret.kind = "Some") =>
             \A i \in 1..Len(noisy_scores) :
                 f64_le(noisy_scores[i][2], ret.val[2])

C5_Witness ==
    /\ NoNaN
    /\ ret.op = "draw_with_score"
    /\ ret.kind = "Some"
    /\ Len(noisy_scores) >= 2
    /\ f64_lt(noisy_scores[2][2], ret.val[2])
    /\ \E p \in 1..N : f64_lt(scores[p], scores[ret.val[1] + 1])

(* ------------------------------ C6 ----------------------------------- *)

(* C6: the length of noisy_scores equals scores_len in every state.        *)
C6_LengthInvariant == Len(noisy_scores) = scores_len

C6_Witness ==
    /\ ret.kind = "Some"
    /\ scores_len >= 1
    /\ Len(drawn) >= 2

(* ------------------------------ C7 ----------------------------------- *)

(* C7: the original indices held in noisy_scores are pairwise distinct and *)
(* each lies in [0, N).                                                    *)
C7_IndexInvariant ==
    /\ \A i, j \in 1..Len(noisy_scores) :
           i # j => noisy_scores[i][1] # noisy_scores[j][1]
    /\ \A i \in 1..Len(noisy_scores) :
           noisy_scores[i][1] >= 0 /\ noisy_scores[i][1] < N

C7_Witness ==
    /\ Len(noisy_scores) >= 2
    /\ ret.kind = "Some"
    /\ noisy_scores[1][1] > noisy_scores[2][1]

(* ------------------------------ C8 ----------------------------------- *)

(* C8: new() on an empty slice returns a bucket, and every draw() and      *)
(* draw_with_score() on it returns None.                                   *)
C8_EmptyInput ==
    N = 0 => /\ scores_len = 0
             /\ noisy_scores = <<>>
             /\ ret.op = "new" => ret.kind = "Bucket"
             /\ ret.op # "new" => ret.kind = "None"
             /\ drawn = <<>>

C8_Witness ==
    /\ N = 0
    /\ ret.op = "draw_with_score"
    /\ ret.kind = "None"

(* ------------------------------ C9 ----------------------------------- *)

(* C9: when some noisy scores are NaN the comparator of the sort answers   *)
(* Equal for every incomparable pair, and new() returns a bucket that      *)
(* holds all N pairs (i, scores[i] + noises[i]).                           *)
C9_NaNConstruction ==
    (ret.op = "new" /\ ~NoNaN) =>
      /\ ret.kind = "Bucket"
      /\ scores_len = N
      /\ Len(noisy_scores) = N
      /\ Range(noisy_scores) = Range(pair_up(scores, noises))
      /\ \A i, j \in 1..N :
             (IsNaN(noisy_scores[i][2]) \/ IsNaN(noisy_scores[j][2])) =>
                 compare(noisy_scores[i], noisy_scores[j]) = "Equal"

(* new(&LongScores, 0.0) panics in the sort. *)
C9_Witness ==
    /\ ret.op = "new"
    /\ scores = LongScores
    /\ temperature = Num(0)
    /\ ~NoNaN
    /\ ret.kind = "panic"

(* ------------------------------ C10 ---------------------------------- *)

(* C10: from any bucket state, draw() returns None exactly when            *)
(* draw_with_score() would, otherwise the index of the pair                *)
(* draw_with_score() would return, and leaves the bucket as                *)
(* draw_with_score() would.                                                *)
C10_DrawIsProjection ==
    [][ret'.op = "draw" =>
         LET r == draw_with_score(bucket)
         IN /\ (ret'.kind = "None") <=> (r.kind = "None")
            /\ r.kind = "Some" => (ret'.kind = "Some" /\ ret'.val = <<r.val[1]>>)
            /\ bucket' = r.bucket]_vars

C10_Witness ==
    /\ ret.op = "draw"
    /\ ret.kind = "Some"
    /\ Len(drawn) >= 2
    /\ scores_len >= 1

(* ------------------------------ C11 ---------------------------------- *)

(* C11: no draw panics: remove(0) is only reached on a non-empty vector,   *)
(* the remaining count never goes below zero, and in every reachable state *)
(* the next draw_with_score() completes as well.                           *)
C11_NoPanic ==
    /\ ret.op # "new" => ret.kind # "panic"
    /\ scores_len >= 0
    /\ scores_len > 0 => noisy_scores # <<>>
    /\ draw_with_score(bucket).kind \in {"Some", "None"}

C11_Witness ==
    /\ ret.op = "draw_with_score"
    /\ ret.kind = "None"
    /\ Len(seen) >= 2
    /\ Len(drawn) = N

(* ------------------------------ C12 ---------------------------------- *)

(* C12: gumbel_noise(size, temperature) returns exactly size values, one   *)
(* per variate sampled, for every temperature (zero, negative, infinite    *)
(* and NaN included); for size 0 it returns the empty sequence.            *)
C12_NoiseLength ==
    /\ Len(noises) = N
    /\ Len(noises) = Len(u)
    /\ N = 0 => noises = <<>>

C12_Witness ==
    /\ N >= 2
    /\ temperature = PosInf
    /\ Len(noises) = N
    /\ noises[1] = NegInf
    /\ noises[2] = PosInf

(* ------------------------------ C17 ---------------------------------- *)

(* C17 as claimed: every variate fed to the transform lies strictly        *)
(* between 1e-10 and 1 - 1e-10; neither end can be sampled.                *)
C17_OpenInterval ==
    \A i \in 1..Len(u) : ULow < u[i] /\ u[i] < UHigh

(* C17 amended: every variate fed to the transform lies in the half-open   *)
(* range [1e-10, 1 - 1e-10): 1 - 1e-10 cannot be sampled, 1e-10 can.       *)
C17_HalfOpenInterval ==
    \A i \in 1..Len(u) : ULow <= u[i] /\ u[i] < UHigh

C17_Witness ==
    /\ ret.op = "gumbel_noise"
    /\ Len(u) = ret.val[1]
    /\ Len(u) >= 2
    /\ u[1] = ULow
    /\ u[2] = UHigh - 1

(* ------------------------------ C14 ---------------------------------- *)

(* C14: new() on N scores returns a bucket with remaining count N whose    *)
(* pairs are, up to order, exactly (i, scores[i] + noises[i]) for i in     *)
(* 0..N, noises being the one N-element vector generated from the          *)
(* variates of this construction.                                          *)
C14_ConstructionPairing ==
    ret.op = "new" =>
      /\ ret.kind = "Bucket"
      /\ scores_len = N
      /\ Len(noisy_scores) = N
      /\ Len(noises) = N
      /\ \A i \in 1..N : noises[i] = f64_mul(Num(u[i]), temperature)
      /\ Range(noisy_scores) =
             {<<i - 1, f64_add(scores[i], noises[i])>> : i \in 1..N}

(* new() has generated the N noises and has panicked in the sort: no      *)
(* bucket of N pairs comes out of the call.                                *)
C14_Witness ==
    /\ ret.op = "new"
    /\ ret.kind = "panic"
    /\ temperature = Num(1)
    /\ Len(noises) = N
    /\ noisy_scores = <<>>

(* ------------------------------ C15 ---------------------------------- *)

(* C15: with remaining count > 0 a draw returns the front pair, removes    *)
(* exactly that pair and decrements the remaining count by exactly 1;      *)
(* every other pair keeps its index, noisy score and relative position.    *)
C15_SuccessfulDrawEffect ==
    [][scores_len > 0 =>
         /\ ret'.kind = "Some"
         /\ ret'.val[1] = noisy_scores[1][1]
         /\ ret'.op = "draw_with_score" => ret'.val = noisy_scores[1]
         /\ noisy_scores' = Tail(noisy_scores)
         /\ scores_len' = scores_len - 1]_vars

C15_Witness ==
    /\ ret.op = "draw_with_score"
    /\ ret.kind = "Some"
    /\ scores_len = N - 1
    /\ Len(noisy_scores) >= 2
    /\ noisy_scores[1] # noisy_scores[2]

(* ------------------------------ C16 ---------------------------------- *)

(* C16: the remaining count decreases by one on every successful draw and  *)
(* never increases, and the loop that calls draw() until it returns None   *)
(* gets its None after at most N successful draws.                         *)
C16_DrainTerminates ==
    /\ [][/\ scores_len' <= scores_len
          /\ ret'.kind = "Some" => scores_len' < scores_len]_vars
    /\ [](Len(drawn) <= N)
    /\ <>(ret.op = "draw" /\ ret.kind = "None")

C16_Witness ==
    /\ ret.op = "draw"
    /\ ret.kind = "None"
    /\ N >= 3
    /\ Len(drawn) = N
    /\ seen = <<>>

(* ------------------------------ C19 ---------------------------------- *)

(* C19: with remaining count 0, draw() and draw_with_score() return None   *)
(* and leave the remaining count and the stored pairs as they were.        *)
C19_ExhaustedDrawNoEffect ==
    [][scores_len = 0 =>
         /\ ret'.kind = "None"
         /\ ret'.val = <<>>
         /\ scores_len' = scores_len
         /\ noisy_scores' = noisy_scores]_vars

C19_Witness ==
    /\ ret.op = "draw_with_score"
    /\ ret.kind = "None"
    /\ none_seen
    /\ N >= 1
    /\ seen = <<>>

(* ------------------------------ C18 ---------------------------------- *)

(* C18: after a clone, the draws of the two copies return the same         *)
(* results call for call, the copies are in the same state whenever they   *)
(* have made the same number of draws, and a draw on one copy leaves the   *)
(* other copy as it was.                                                   *)
C18_CloneDeterminism ==
    /\ [](Len(copies) = 2 =>
            /\ \A j \in 1..Len(logs[1]) :
                   j <= Len(logs[2]) => logs[1][j] = logs[2][j]
            /\ Len(logs[1]) = Len(logs[2]) =>
                   deref(heap, copies[1]) = deref(heap, copies[2]))
    /\ [][Len(copies) = 2 =>
            \A i \in 1..2 :
                logs'[i] = logs[i] =>
                    deref(heap', copies'[i]) = deref(heap, copies[i])]_vars

C18_Witness ==
    /\ Len(copies) = 2
    /\ Len(scores) >= 3
    /\ Len(logs[1]) = 2
    /\ Len(logs[2]) = 1
    /\ logs[1][2].kind = "Some"
    /\ copies[1].scores_len = 0
    /\ copies[2].scores_len = 1

====
